---- MODULE Spec2Model ----
(***************************************************************************)
(* Model of pvpc/pvpc.py: get_day_prices, get_today_prices,                *)
(* parse_answer_from_ree and check_requested_rate.                         *)
(*                                                                         *)
(* Python strings that the code slices or parses (hour labels, price       *)
(* strings, the date query parameter) are sequences of one-character       *)
(* strings.  Rate identifiers and dictionary keys are only compared, so    *)
(* they stay TLA+ strings.  A Python float is an exact decimal             *)
(* [m |-> mantissa, e |-> number of fractional digits], kept normalised,   *)
(* so that equal numbers are equal records.                                *)
(***************************************************************************)
EXTENDS Integers, Sequences, FiniteSets

VARIABLES now, call, net, result

vars == <<now, call, net, result>>

(***************************************************************************)
(* Bounds                                                                  *)
(***************************************************************************)
\* longest 'PVPC' list handed directly to parse_answer_from_ree
MaxRecords == 2
\* longest 'PVPC' list in a body served to get_day_prices
MaxBodyRecords == 1

(***************************************************************************)
(* Python values                                                           *)
(***************************************************************************)
\* Python's None as a rate argument; no rate string of the model spells it
None == "None"

AVAILABLE_RATES == <<"GEN", "NOC", "VHC">>

RateSet == {AVAILABLE_RATES[i] : i \in DOMAIN AVAILABLE_RATES}

\* a str value, a non-str JSON number, and the marker of an absent key
Str(s) == [t |-> "str", s |-> s]

Num == [t |-> "num", s |-> <<>>]

Absent == [t |-> "absent", s |-> <<>>]

Ok(v) == [ok |-> TRUE, exc |-> "", v |-> v]

Raise(e, dummy) == [ok |-> FALSE, exc |-> e, v |-> dummy]

DigitChars == <<"0", "1", "2", "3", "4", "5", "6", "7", "8", "9">>

IsDigit(c) == \E i \in DOMAIN DigitChars : DigitChars[i] = c

DigitVal(c) == (CHOOSE i \in DOMAIN DigitChars : DigitChars[i] = c) - 1

RECURSIVE NatOf(_)
NatOf(ds) ==
    IF ds = <<>> THEN 0
    ELSE 10 * NatOf(SubSeq(ds, 1, Len(ds) - 1)) + DigitVal(ds[Len(ds)])

RECURSIVE Strip(_)
\* str.strip() as int() and float() apply it to their argument
Strip(s) ==
    IF s = <<>> THEN s
    ELSE IF s[1] = " " THEN Strip(Tail(s))
    ELSE IF s[Len(s)] = " " THEN Strip(SubSeq(s, 1, Len(s) - 1))
    ELSE s

\* the sign prefix accepted by int() and float()
HasSign(s) == s # <<>> /\ s[1] \in {"+", "-"}

Unsigned(s) == IF HasSign(s) THEN Tail(s) ELSE s

SignOf(s) == IF s # <<>> /\ s[1] = "-" THEN -1 ELSE 1

\* s[:n]
Prefix(s, n) == SubSeq(s, 1, IF Len(s) < n THEN Len(s) ELSE n)

\* int(s) for a str of at most two characters (no room for '_' grouping)
PyInt(s) ==
    LET body == Unsigned(Strip(s))
    IN  IF body # <<>> /\ \A i \in DOMAIN body : IsDigit(body[i])
        THEN Ok(SignOf(Strip(s)) * NatOf(body))
        ELSE Raise("ValueError", 0)

\* str.replace(old, new) for one-character old and new
Replace(s, old, new) == [i \in DOMAIN s |-> IF s[i] = old THEN new ELSE s[i]]

NoFloat == [m |-> 0, e |-> 0]

\* float(s) over signs, digits and '.': [sign] digits [. digits] with at
\* least one digit; anything else is a ValueError
PyFloat(s) ==
    LET body == Unsigned(Strip(s))
        dots == {i \in DOMAIN body : body[i] = "."}
        dot  == IF dots = {} THEN Len(body) + 1 ELSE CHOOSE i \in dots : TRUE
        ip   == SubSeq(body, 1, dot - 1)
        fp   == SubSeq(body, dot + 1, Len(body))
    IN  IF /\ Cardinality(dots) <= 1
           /\ Len(ip) + Len(fp) > 0
           /\ \A i \in DOMAIN ip : IsDigit(ip[i])
           /\ \A i \in DOMAIN fp : IsDigit(fp[i])
        THEN Ok([m |-> SignOf(Strip(s)) * NatOf(ip \o fp), e |-> Len(fp)])
        ELSE Raise("ValueError", NoFloat)

RECURSIVE Normalize(_)
\* the canonical form of a decimal: no trailing fractional zero
Normalize(x) ==
    IF x.m = 0 THEN [m |-> 0, e |-> 0]
    ELSE IF x.e > 0 /\ x.m % 10 = 0 THEN Normalize([m |-> x.m \div 10, e |-> x.e - 1])
    ELSE x

\* x / 1000
Div1000(x) == Normalize([m |-> x.m, e |-> x.e + 3])

(***************************************************************************)
(* parse_answer_from_ree                                                   *)
(***************************************************************************)
\* the outcome of a call: a returned mapping, the returned False, or a
\* raised exception, with the GET requests issued and the number of times
\* the parser was entered
Returned(value, requests, parsed) ==
    [kind |-> "mapping", exc |-> "", value |-> value,
     requests |-> requests, parsed |-> parsed]

ReturnedFalse(requests) ==
    [kind |-> "False", exc |-> "", value |-> <<>>,
     requests |-> requests, parsed |-> 0]

Raised(exc, requests, parsed) ==
    [kind |-> "raise", exc |-> exc, value |-> <<>>,
     requests |-> requests, parsed |-> parsed]

Pending ==
    [kind |-> "pending", exc |-> "", value |-> <<>>,
     requests |-> <<>>, parsed |-> 0]

\* d[key] on a dict
GetItem(d, key) ==
    IF key \in DOMAIN d /\ d[key] # Absent
    THEN Ok(d[key])
    ELSE Raise("KeyError", Absent)

\* variant of SetItem: d.setdefault(key, value), an existing entry is kept
SetItem_setdefault(d, key, value) ==
    [k \in DOMAIN d \cup {key} |-> IF k \in DOMAIN d THEN d[k] ELSE value]

\* d[key] = value on a dict
SetItem(d, key, value) ==
    [k \in DOMAIN d \cup {key} |-> IF k = key THEN value ELSE d[k]]

\* answer['PVPC'] inside try / except KeyError: raise DateError()
check_valid_answer(answer) ==
    IF answer.t # "dict" THEN Raise("TypeError", 0)
    ELSE IF ~answer.has THEN Raise("DateError", 0)
    ELSE Ok(0)

\* variant of parsed_time_in_answer_from_ree: int(hour['Hora'][:1])
parsed_time_first_character(hour) ==
    LET label == GetItem(hour, "Hora")
    IN  IF ~label.ok THEN Raise(label.exc, 0)
        ELSE IF label.v.t # "str" THEN Raise("TypeError", 0)
        ELSE PyInt(Prefix(label.v.s, 1))

\* int(hour['Hora'][:2])
parsed_time_in_answer_from_ree(hour) ==
    LET label == GetItem(hour, "Hora")
    IN  IF ~label.ok THEN Raise(label.exc, 0)
        ELSE IF label.v.t # "str" THEN Raise("TypeError", 0)
        ELSE PyInt(Prefix(label.v.s, 2))

\* float(price_str.replace(',', '.')) / 1000
price_from_ree_into_float(price_str) ==
    IF price_str.t # "str" THEN Raise("AttributeError", NoFloat)
    ELSE LET f == PyFloat(Replace(price_str.s, ",", "."))
         IN  IF f.ok THEN Ok(Div1000(f.v)) ELSE f

\* price_from_ree_into_float(hour[a_rate])
field_price(hour, a_rate) ==
    LET field == GetItem(hour, a_rate)
    IN  IF field.ok THEN price_from_ree_into_float(field.v)
        ELSE Raise(field.exc, NoFloat)

\* variant of all_rates_price: every key gets the price of the first rate,
\* {a_rate: price_from_ree_into_float(hour[AVAILABLE_RATES[0]]) for ...}
all_rates_price_first_rate(hour) ==
    LET first == field_price(hour, AVAILABLE_RATES[1])
    IN  IF first.ok THEN Ok([a_rate \in RateSet |-> first.v]) ELSE first

\* {a_rate: price_from_ree_into_float(hour[a_rate]) for a_rate in
\* AVAILABLE_RATES}: the first failing rate, in list order, raises
all_rates_price(hour) ==
    LET bad == {i \in DOMAIN AVAILABLE_RATES :
                    ~field_price(hour, AVAILABLE_RATES[i]).ok}
    IN  IF bad = {}
        THEN Ok([a_rate \in RateSet |-> field_price(hour, a_rate).v])
        ELSE Raise(field_price(hour, AVAILABLE_RATES[
                       CHOOSE i \in bad : \A j \in bad : i <= j]).exc, NoFloat)

\* variant of single_rate_price: all rates are converted, then one is kept
single_rate_price_from_all(hour, rate) ==
    LET all == all_rates_price(hour)
    IN  IF ~all.ok THEN all
        ELSE IF rate \in RateSet THEN Ok(all.v[rate])
        ELSE Raise("KeyError", NoFloat)

\* variant of single_rate_price: the rate argument is ignored
single_rate_price_ignores_rate(hour, rate) == field_price(hour, AVAILABLE_RATES[1])

\* price_from_ree_into_float(hour[rate])
single_rate_price(hour, rate) == field_price(hour, rate)

RECURSIVE parse_loop(_, _, _, _)
\* for hour in answer['PVPC']: the price is computed before the hour key
parse_loop(records, rate, i, parsed_answer) ==
    IF i > Len(records) THEN Returned(parsed_answer, <<>>, 1)
    ELSE LET hour  == records[i]
             price == IF rate = None THEN all_rates_price(hour)
                      ELSE single_rate_price(hour, rate)
             key   == parsed_time_in_answer_from_ree(hour)
         IN  IF ~price.ok THEN Raised(price.exc, <<>>, 1)
             ELSE IF ~key.ok THEN Raised(key.exc, <<>>, 1)
             ELSE parse_loop(records, rate, i + 1,
                             SetItem(parsed_answer, key.v, price.v))

parse_answer_from_ree(answer, rate) ==
    LET valid == check_valid_answer(answer)
    IN  IF ~valid.ok THEN Raised(valid.exc, <<>>, 1)
        ELSE parse_loop(answer.PVPC, rate, 1, <<>>)

(***************************************************************************)
(* get_day_prices, get_today_prices                                        *)
(***************************************************************************)
REE_URL == "https://api.esios.ree.es/"

\* variant of check_requested_rate: the ValueError is built but not raised
check_requested_rate_no_raise(rate) == Ok(0)

\* 'The rate {} is not valid' as a ValueError
check_requested_rate(rate) ==
    IF rate \notin RateSet THEN Raise("ValueError", 0) ELSE Ok(0)

Pad2(n) == <<DigitChars[(n \div 10) + 1], DigitChars[(n % 10) + 1]>>

\* date.strftime('%Y-%m-%d'): the time of day is dropped
strftime(date) ==
    Pad2(date.year \div 100) \o Pad2(date.year % 100) \o <<"-">>
        \o Pad2(date.month) \o <<"-">> \o Pad2(date.day)

\* the GET issued by requests.get(url, params={'date': ...})
Request(date) ==
    [url |-> <<REE_URL, "archives/70/download_json">>, date |-> strftime(date)]

\* ans.json()
json(body) ==
    IF body.t = "invalid" THEN Raise("JSONDecodeError", body) ELSE Ok(body)

\* variant of status_is_200: ans.status_code < 500
status_below_500(ans) == ans.status_code < 500

\* ans.status_code == 200
status_is_200(ans) == ans.status_code = 200

\* n is what the network does with the request: a transport failure, on
\* which requests.get raises, or a response with a status code and a body
get_day_prices(date, rate, n) ==
    IF rate # None /\ ~check_requested_rate(rate).ok
    THEN Raised(check_requested_rate(rate).exc, <<>>, 0)
    ELSE LET reqs == <<Request(date)>>
         IN  IF n.kind = "error" THEN Raised("ConnectionError", reqs, 0)
             ELSE IF status_is_200(n)
             THEN LET answer == json(n.body)
                  IN  IF ~answer.ok THEN Raised(answer.exc, reqs, 0)
                      ELSE LET r == parse_answer_from_ree(answer.v, rate)
                           IN  [r EXCEPT !.requests = reqs]
             ELSE ReturnedFalse(reqs)

\* variant of get_today_prices: the rate is not passed on
get_today_prices_drops_rate(rate, today, n) == get_day_prices(today, None, n)

\* get_day_prices(datetime.today(), rate=rate); today is the clock reading
get_today_prices(rate, today, n) == get_day_prices(today, rate, n)

(***************************************************************************)
(* Inputs                                                                  *)
(***************************************************************************)
\* rate arguments: omitted, the three catalog rates, one outside the catalog
RateArgs == {None} \cup RateSet \cup {"XXX"}

\* datetimes: two calendar days, two times of day each
Datetimes ==
    {[year |-> 2019, month |-> 3, day |-> d, hour |-> h] :
        d \in {9, 10}, h \in {0, 13}}

\* 'Hora' labels: "00-01", "00:30", "24-25", "H1"
HoraValues ==
    {Str(<<"0", "0", "-", "0", "1">>), Str(<<"0", "0", ":", "3", "0">>),
     Str(<<"2", "4", "-", "2", "5">>), Str(<<"H", "1">>)}

\* 'GEN' fields: "123,450", "99,9" or no such key
GenValues ==
    {Str(<<"1", "2", "3", ",", "4", "5", "0">>), Str(<<"9", "9", ",", "9">>),
     Absent}

\* 'NOC' fields: "75,08" or the unparseable "7,5,1"
NocValues == {Str(<<"7", "5", ",", "0", "8">>), Str(<<"7", ",", "5", ",", "1">>)}

\* 'VHC' fields: "60" or a JSON number instead of a string
VhcValues == {Str(<<"6", "0">>), Num}

\* the hourly records
Records ==
    {[Hora |-> h, GEN |-> g, NOC |-> n, VHC |-> v] :
        h \in HoraValues, g \in GenValues, n \in NocValues, v \in VhcValues}

\* JSON values: an array, null, an object without 'PVPC', and objects whose
\* 'PVPC' is a list of at most n hourly records
Answers(n) ==
    {[t |-> "list", has |-> FALSE, PVPC |-> <<>>],
     [t |-> "null", has |-> FALSE, PVPC |-> <<>>],
     [t |-> "dict", has |-> FALSE, PVPC |-> <<>>]}
    \cup {[t |-> "dict", has |-> TRUE, PVPC |-> l] :
            l \in UNION {[1..k -> Records] : k \in 0..n}}

\* response bodies: the JSON values and a body that is not JSON
Bodies ==
    Answers(MaxBodyRecords) \cup {[t |-> "invalid", has |-> FALSE, PVPC |-> <<>>]}

NoBody == [t |-> "none", has |-> FALSE, PVPC |-> <<>>]

NoNet == [kind |-> "none", status_code |-> 0, body |-> NoBody]

\* what the network does with a GET: fail, or answer with a status and a body
Nets ==
    {[kind |-> "error", status_code |-> 0, body |-> NoBody]}
    \cup {[kind |-> "response", status_code |-> c, body |-> b] :
            c \in {200, 404, 500}, b \in Bodies}

NoDate == [year |-> 0, month |-> 0, day |-> 0, hour |-> 0]

Idle == [entry |-> "idle", date |-> NoDate, rate |-> None, answer |-> NoBody]

(***************************************************************************)
(* One invocation of an entry point per behaviour: the module keeps no     *)
(* state between calls.                                                    *)
(***************************************************************************)
Init ==
    /\ now \in Datetimes
    /\ call = Idle
    /\ net = NoNet
    /\ result = Pending

GetDayPrices ==
    /\ call = Idle
    /\ \E date \in Datetimes, rate \in RateArgs, n \in Nets :
        /\ call' = [entry |-> "get_day_prices", date |-> date, rate |-> rate,
                    answer |-> NoBody]
        /\ net' = n
        /\ result' = get_day_prices(date, rate, n)
    /\ UNCHANGED now

GetTodayPrices ==
    /\ call = Idle
    /\ \E rate \in RateArgs, n \in Nets :
        /\ call' = [entry |-> "get_today_prices", date |-> NoDate,
                    rate |-> rate, answer |-> NoBody]
        /\ net' = n
        /\ result' = get_today_prices(rate, now, n)
    /\ UNCHANGED now

Next == GetDayPrices \/ GetTodayPrices

Spec == Init /\ [][Next]_vars

(***************************************************************************)
(* parse_answer_from_ree called directly on a payload                      *)
(***************************************************************************)
InitParse ==
    /\ now = NoDate
    /\ \E answer \in Answers(MaxRecords), rate \in RateArgs :
        call = [entry |-> "parse_answer_from_ree", date |-> NoDate,
                rate |-> rate, answer |-> answer]
    /\ net = NoNet
    /\ result = Pending

ParseAnswerFromRee ==
    /\ call.entry = "parse_answer_from_ree"
    /\ result = Pending
    /\ result' = parse_answer_from_ree(call.answer, call.rate)
    /\ UNCHANGED <<now, call, net>>

NextParse == ParseAnswerFromRee

SpecParse == InitParse /\ [][NextParse]_vars

(***************************************************************************)
(* Properties of get_day_prices and get_today_prices (under Spec)          *)
(***************************************************************************)
EntryCall == call.entry \in {"get_day_prices", "get_today_prices"}

CatalogOrNone == {None, "GEN", "NOC", "VHC"}

\* C1: a supplied rate outside {GEN, NOC, VHC} ends get_day_prices and
\* get_today_prices in ValueError with no HTTP request issued.
C1_InvalidRateFailsBeforeRequest ==
    (EntryCall /\ call.rate \notin CatalogOrNone)
        => /\ result.kind = "raise"
           /\ result.exc = "ValueError"
           /\ result.requests = <<>>

\* an invalid-rate call made while the network would have served a 200
C1_Witness ==
    /\ EntryCall
    /\ call.rate = "XXX"
    /\ net.kind = "response"
    /\ net.status_code = 200
    /\ result.kind = "raise"

\* C2: on a response whose status is not 200, get_day_prices called with
\* no rate or a catalog rate returns False and never enters the parser.
C2_Non200ReturnsFalse ==
    (/\ call.entry = "get_day_prices"
     /\ call.rate \in CatalogOrNone
     /\ net.kind = "response"
     /\ net.status_code # 200)
        => /\ result.kind = "False"
           /\ result.parsed = 0

\* a 404 whose body the parser would have accepted
C2_Witness ==
    /\ call.entry = "get_day_prices"
    /\ call.rate = "GEN"
    /\ net.kind = "response"
    /\ net.status_code = 404
    /\ parse_answer_from_ree(net.body, call.rate).kind = "mapping"
    /\ result.kind = "False"

\* C8: whenever the request does not deliver a 200 response, a transport
\* failure included, get_day_prices returns False, and the only exceptions
\* it raises are the invalid-rate ValueError and DateError.
C8_TransportFailureReturnsFalse ==
    call.entry = "get_day_prices"
        => /\ (/\ result.requests # <<>>
               /\ ~(net.kind = "response" /\ net.status_code = 200))
                  => result.kind = "False"
           /\ result.kind = "raise"
                  => \/ result.exc = "ValueError" /\ result.requests = <<>>
                     \/ result.exc = "DateError"

SameDay(d1, d2) ==
    d1.year = d2.year /\ d1.month = d2.month /\ d1.day = d2.day

\* C9: get_today_prices(rate) ends as get_day_prices does when called with
\* any datetime of the current day, the same rate and the same network
\* behaviour: same mapping, same False, same exception, same request.
C9_TodayDelegatesToDay ==
    call.entry = "get_today_prices"
        => \A d \in Datetimes :
               SameDay(d, now) => result = get_day_prices(d, call.rate, net)

\* get_today_prices with a rate returned a non-empty mapping
C9_Witness ==
    /\ call.entry = "get_today_prices"
    /\ call.rate = "NOC"
    /\ result.kind = "mapping"
    /\ result.value # <<>>

(***************************************************************************)
(* Properties of parse_answer_from_ree (under SpecParse)                   *)
(***************************************************************************)
Parsed == call.entry = "parse_answer_from_ree" /\ result # Pending

\* the hourly records of the payload handed to the parser
Recs == call.answer.PVPC

\* every record's label is a str starting with two decimal digits
TwoDigitLabels ==
    \A i \in DOMAIN Recs :
        /\ Recs[i].Hora.t = "str"
        /\ Len(Recs[i].Hora.s) >= 2
        /\ IsDigit(Recs[i].Hora.s[1])
        /\ IsDigit(Recs[i].Hora.s[2])

\* the integer the first two characters of such a label denote
HourOf(rec) == 10 * DigitVal(rec.Hora.s[1]) + DigitVal(rec.Hora.s[2])

\* the last record, in list order, whose label denotes hour h
LastWith(h) ==
    CHOOSE i \in DOMAIN Recs :
        /\ HourOf(Recs[i]) = h
        /\ \A j \in DOMAIN Recs : HourOf(Recs[j]) = h => j <= i

RECURSIVE Pow10(_)
Pow10(n) == IF n = 0 THEN 1 ELSE 10 * Pow10(n - 1)

\* p is the number written by the comma-decimal string field, divided by
\* 1000: with N the digits of the string read as one integer and k the
\* number of digits after the comma, p = N / 10^(k + 3), compared after
\* cancelling the common power of ten
IsConversionOf(p, field) ==
    LET str    == field.s
        commas == {i \in DOMAIN str : str[i] = ","}
        k      == IF commas = {} THEN 0
                  ELSE Len(str) - (CHOOSE i \in commas : TRUE)
        N      == NatOf(SelectSeq(str, IsDigit))
    IN  /\ field.t = "str"
        /\ Cardinality(commas) <= 1
        /\ \A i \in DOMAIN str : str[i] = "," \/ IsDigit(str[i])
        /\ LET c == IF k + 3 < p.e THEN k + 3 ELSE p.e
           IN  p.m * Pow10(k + 3 - c) = N * Pow10(p.e - c)

\* C3: on every payload without the top-level 'PVPC' field, whatever the
\* rate argument, parse_answer_from_ree raises DateError and returns no
\* mapping.
C3_MissingListRaisesDateError ==
    (Parsed /\ ~(call.answer.t = "dict" /\ call.answer.has))
        => /\ result.kind = "raise"
           /\ result.exc = "DateError"
           /\ result.value = <<>>

\* C4 as claimed: the returned mapping has as many entries as the 'PVPC'
\* list has hour labels.
C4_OneEntryPerRecord ==
    (Parsed /\ result.kind = "mapping")
        => Cardinality(DOMAIN result.value) = Len(Recs)

\* C4 as amended: the returned mapping has exactly one entry per distinct
\* hour denoted by the first two characters of the labels, so at most one
\* per record, and the entry of an hour holds the price of the last record
\* of that hour.
C4_OneEntryPerDistinctHour ==
    (Parsed /\ result.kind = "mapping" /\ TwoDigitLabels)
        => /\ DOMAIN result.value = {HourOf(Recs[i]) : i \in DOMAIN Recs}
           /\ Cardinality(DOMAIN result.value) <= Len(Recs)
           /\ \A h \in DOMAIN result.value :
                  result.value[h] =
                      IF call.rate = None
                      THEN [r \in {"GEN", "NOC", "VHC"} |->
                               field_price(Recs[LastWith(h)], r).v]
                      ELSE field_price(Recs[LastWith(h)], call.rate).v

\* two records of the same hour with different prices were parsed
C4_Witness ==
    /\ Parsed
    /\ result.kind = "mapping"
    /\ Len(Recs) = 2
    /\ Recs[1].Hora # Recs[2].Hora
    /\ Recs[1].GEN # Recs[2].GEN
    /\ call.rate = "GEN"
    /\ Cardinality(DOMAIN result.value) = 1

\* C5: with no rate, every hour's value has exactly the keys GEN, NOC and
\* VHC, and each key's price is the conversion of that rate's own field in
\* one and the same record of that hour.
C5_AllRatesConverted ==
    (Parsed /\ call.rate = None /\ result.kind = "mapping")
        => \A h \in DOMAIN result.value :
               /\ DOMAIN result.value[h] = {"GEN", "NOC", "VHC"}
               /\ \E i \in DOMAIN Recs :
                      /\ HourOf(Recs[i]) = h
                      /\ \A r \in {"GEN", "NOC", "VHC"} :
                             IsConversionOf(result.value[h][r], Recs[i][r])

\* a payload of two hours parsed with no rate
C5_Witness ==
    /\ Parsed
    /\ call.rate = None
    /\ result.kind = "mapping"
    /\ Cardinality(DOMAIN result.value) = 2

\* the payload with every rate field but rate removed from every record
OnlyRate(answer, rate) ==
    [answer EXCEPT !.PVPC =
        [i \in DOMAIN answer.PVPC |->
            [k \in DOMAIN answer.PVPC[i] |->
                IF k \in {"Hora", rate} THEN answer.PVPC[i][k] ELSE Absent]]]

\* C6: with a catalog rate r, every hour's value is one number, the
\* conversion of field r of a record of that hour, and the outcome is the
\* one the parser reaches on the payload stripped of all other rate
\* fields.
C6_SingleRateReadsOnlyThatRate ==
    (Parsed /\ call.rate \in {"GEN", "NOC", "VHC"})
        => /\ result = parse_answer_from_ree(OnlyRate(call.answer, call.rate),
                                             call.rate)
           /\ result.kind = "mapping"
                  => \A h \in DOMAIN result.value :
                         \E i \in DOMAIN Recs :
                             /\ HourOf(Recs[i]) = h
                             /\ IsConversionOf(result.value[h],
                                               Recs[i][call.rate])

\* a single-rate parse of a record whose two other rate fields are unusable
C6_Witness ==
    /\ Parsed
    /\ call.rate = "GEN"
    /\ result.kind = "mapping"
    /\ \E i \in DOMAIN Recs :
           /\ ~field_price(Recs[i], "NOC").ok
           /\ ~field_price(Recs[i], "VHC").ok

\* C7 as claimed: every key of a returned mapping is in 0..23.
C7_KeysIn0To23 ==
    (Parsed /\ result.kind = "mapping")
        => \A h \in DOMAIN result.value : h \in 0..23

\* C7 as amended: when every label starts with two digits, every key of a
\* returned mapping is the integer those digits denote in some record, so
\* it is in 0..99, and in 0..23 exactly when that prefix is 00 to 23: the
\* parser does not check the range.
C7_KeysAreLabelPrefixes ==
    (Parsed /\ result.kind = "mapping" /\ TwoDigitLabels)
        => \A h \in DOMAIN result.value :
               /\ h \in 0..99
               /\ \E i \in DOMAIN Recs : h = HourOf(Recs[i])

\* a returned mapping with the key 24
C7_Witness ==
    /\ Parsed
    /\ result.kind = "mapping"
    /\ 24 \in DOMAIN result.value

\* C10: when the payload parses with no rate, it parses with every catalog
\* rate r to the same hour keys, and each hour's value is the r entry of
\* that hour in the no-rate result.
C10_SingleRateIsProjection ==
    (Parsed /\ call.rate \in {"GEN", "NOC", "VHC"})
        => LET all == parse_answer_from_ree(call.answer, None)
           IN  all.kind = "mapping"
                   => /\ result.kind = "mapping"
                      /\ DOMAIN result.value = DOMAIN all.value
                      /\ \A h \in DOMAIN all.value :
                             result.value[h] = all.value[h][call.rate]

\* two records of one hour with different GEN prices, parsable in both modes
C10_Witness ==
    /\ Parsed
    /\ call.rate = "GEN"
    /\ parse_answer_from_ree(call.answer, None).kind = "mapping"
    /\ Len(Recs) = 2
    /\ Recs[1].GEN # Recs[2].GEN
    /\ Cardinality(DOMAIN result.value) = 1

====
